---- MODULE Spec2Model ----
(***************************************************************************)
(* Model of the Proxmox orchestration code of homelab-cli:                 *)
(*   - ProxmoxRepository.getNextAvailableVmid  (vmid allocator)            *)
(*   - ProxmoxRepository.waitForTask           (task poller)               *)
(*   - ProxmoxRepository.listResources / fetchVMIPAddress                  *)
(*   - ProxmoxSSHService.getResourceIPAddress / getResourceFQDN /          *)
(*     connectSSH                              (connection orchestrator)   *)
(*   - the other repository methods (clone, delete, start, stop, set       *)
(*     config, list templates)                                             *)
(* Each component has its own specification (SpecAlloc, SpecPoll,          *)
(* SpecConn, SpecService, SpecList, SpecOps) over the shared variables;    *)
(* the variables of the other components stay at their initial values.     *)
(***************************************************************************)
EXTENDS Integers, Sequences, FiniteSets, TLC

VARIABLES
    config,       \* ProxmoxRepository.config (only rejectUnauthorized matters)
    env,          \* process.env.NODE_TLS_REJECT_UNAUTHORIZED
    response,     \* vmids reported by GET /cluster/resources?type=vm
    allocPc,      \* position of the getNextAvailableVmid call
    allocResult,  \* Result returned by getNextAvailableVmid
    pc,           \* position of the waitForTask call
    now,          \* Date.now(), in milliseconds
    startTime,    \* waitForTask: const startTime
    timeoutMs,    \* waitForTask: parameter timeoutMs
    sleepLeft,    \* milliseconds left of the running setTimeout
    lastSnap,     \* what the last status query produced
    lastLatency,  \* how long the last status query took
    queries,      \* number of status queries issued
    returns,      \* number of times waitForTask returned
    allRunning,   \* every status query so far reported status "running"
    result,       \* Result returned by waitForTask
    cluster,      \* the resources GET /cluster/resources?type=vm reports
    conn,         \* the connectSSH call: its arguments, locals and result
    api,          \* the hypervisor's API endpoint as the requests find it
    svc,          \* a caller's repeated address lookup through the service
    list,         \* the listResources call: its locals and result
    op,           \* the last repository or service operation and its outcome
    probe,        \* a fetchVMIPAddress call: the guest agent's answer, the result
    cmd,          \* a connect command: its flags, position and exit
    batch,        \* a start / stop command over several vmids
    flows         \* allocate-then-clone flows running against one cluster

pollVars == <<pc, now, startTime, timeoutMs, sleepLeft, lastSnap, lastLatency,
              queries, returns, allRunning, result>>
allocVars == <<response, allocPc, allocResult>>
connVars == <<cluster, conn>>
otherVars == <<api, svc, list, op>>
moreVars == <<probe, cmd, batch, flows>>

----------------------------------------------------------------------------
(* Bounds of the model *)

\* ids 100 .. 100 + MaxAbove may be in use
MaxAbove == 4
\* ids 100 - MaxBelow .. 99 may be in use
MaxBelow == 2
\* timeouts 0, 1000, ... MaxTimeoutSteps * 1000 ms are tried
MaxTimeoutSteps == 4
\* the cluster holds at most MaxResources resources
MaxResources == 2

----------------------------------------------------------------------------
(* Result pattern: success(data) / failure(error) *)

success(data) == [success |-> TRUE, data |-> data]
failure(error) == [success |-> FALSE, error |-> error]

\* no Result yet
NoResult == [success |-> FALSE, error |-> [message |-> <<"pending">>]]

\* the JavaScript value undefined, where a string is expected
Undefined == "<undefined>"

\* the JavaScript value null, where a string is expected
Null == "<null>"

\* JavaScript truthiness of an optional string
Truthy(s) == s \notin {"", Undefined, Null}

\* the side effect every repository method starts with
DisableTlsVerification(cfg, e) == IF ~cfg.rejectUnauthorized THEN "0" ELSE e

\* the endpoint answers (up), with a self-signed certificate or not, with a
\* response of the expected shape or not
ApiStates == [up : BOOLEAN, selfSigned : BOOLEAN, wellFormed : BOOLEAN]
ApiFine == [up |-> TRUE, selfSigned |-> FALSE, wellFormed |-> TRUE]

\* the request is made before the TLS toggle is applied
RequestEnvStale(cfg, e) == e
\* NODE_TLS_REJECT_UNAUTHORIZED as the request of a repository method finds it
RequestEnv(cfg, e) == DisableTlsVerification(cfg, e)

\* await proxmox.cluster.resources.$get(...) returns rather than throws
RequestOk(a, e) == a.up /\ (a.selfSigned => e = "0")

\* an operation that ended with an exception instead of a Result
Raised == [raised |-> TRUE]

\* the catch block passes the exception on
CatchRethrows(error) == Raised
\* catch (error) { ... return failure(new RepositoryError(...)) }
Catch(error) == failure(error)

----------------------------------------------------------------------------
(* Vmid allocator: ProxmoxRepository.getNextAvailableVmid *)

minVmid == 100

IdDomain == (minVmid - MaxBelow)..(minVmid + MaxAbove)

SetMin(S) == CHOOSE m \in S : \A x \in S : m <= x

MathMax(a, b) == IF a >= b THEN a ELSE b

\* .sort((a, b) => a - b)
RECURSIVE SortAscending(_)
SortAscending(S) ==
    IF S = {} THEN <<>>
    ELSE LET m == SetMin(S) IN <<m>> \o SortAscending(S \ {m})

\* the loop as it would be without the "gap is >= minVmid" condition
RECURSIVE FindGapNoFloor(_, _)
FindGapNoFloor(vmids, i) ==
    IF i > Len(vmids) THEN MathMax(vmids[Len(vmids)] + 1, minVmid)
    ELSE LET currentVmid == vmids[i]
             expectedVmid == IF i = 1 THEN minVmid ELSE vmids[i - 1] + 1
         IN  IF currentVmid > expectedVmid
             THEN expectedVmid
             ELSE IF currentVmid < minVmid
                     /\ (i = Len(vmids) \/ vmids[i + 1] > minVmid)
                  THEN minVmid
                  ELSE FindGapNoFloor(vmids, i + 1)

\* for (let i = 0; i < vmids.length; i++) { ... } return max(maxVmid + 1, minVmid)
\* (indices are 1-based here)
RECURSIVE FindGap(_, _)
FindGap(vmids, i) ==
    IF i > Len(vmids) THEN MathMax(vmids[Len(vmids)] + 1, minVmid)
    ELSE LET currentVmid == vmids[i]
             expectedVmid == IF i = 1 THEN minVmid ELSE vmids[i - 1] + 1
         IN  IF currentVmid > expectedVmid /\ expectedVmid >= minVmid
             THEN expectedVmid
             ELSE IF currentVmid < minVmid
                     /\ (i = Len(vmids) \/ vmids[i + 1] > minVmid)
                  THEN minVmid
                  ELSE FindGap(vmids, i + 1)

\* the pure part of getNextAvailableVmid: from the reported vmids to the id
\* the smallest id in use is handed out again
NextVmidReused(used) == IF used = {} THEN minVmid ELSE SetMin(used)
NextVmid(used) ==
    LET vmids == SortAscending(used)
    IN  IF Len(vmids) = 0 THEN 100 ELSE FindGap(vmids, 1)

FetchFailed ==
    [message |-> <<"Failed to fetch cluster resources for VMID allocation">>]
UnexpectedResourcesFormat ==
    [message |-> <<"Unexpected API response format when fetching cluster resources">>]

InitAlloc ==
    /\ response \in SUBSET IdDomain
    /\ allocPc = "idle"
    /\ allocResult = NoResult

getNextAvailableVmid ==
    /\ allocPc = "idle"
    /\ env' = DisableTlsVerification(config, env)
    /\ allocResult' =
         IF ~RequestOk(api, RequestEnv(config, env))
         THEN Catch(FetchFailed)
         ELSE IF ~api.wellFormed
              THEN failure(UnexpectedResourcesFormat)
              ELSE success(NextVmid(response))
    /\ allocPc' = "done"
    /\ UNCHANGED <<config, response>>

InitAllocIdle ==
    /\ response = {}
    /\ allocPc = "idle"
    /\ allocResult = NoResult

----------------------------------------------------------------------------
(* Task poller: ProxmoxRepository.waitForTask *)

pollInterval == 2000

\* granularity of the clock of the model
TimeStep == pollInterval \div 2

Timeouts == {k * TimeStep : k \in 0..MaxTimeoutSteps}

\* how long a status query may take
Latencies == {0, TimeStep \div 2}

Statuses == {"running", "stopped", ""}
ExitStatuses == {"OK", "", Undefined, "some error", "ok"}

\* outcomes of GET /nodes/{node}/tasks/{upid}/status
NoQueryYet == [kind |-> "noquery", status |-> "", exitstatus |-> Undefined]
QueryThrows == [kind |-> "throw", status |-> "", exitstatus |-> Undefined]
QueryEmpty == [kind |-> "none", status |-> "", exitstatus |-> Undefined]
Snapshots ==
    {[kind |-> "status", status |-> "running", exitstatus |-> Undefined]}
    \cup {[kind |-> "status", status |-> s, exitstatus |-> e] :
              s \in Statuses \ {"running"}, e \in ExitStatuses}
QueryOutcomes == {QueryThrows, QueryEmpty} \cup Snapshots

\* setTimeout(resolve, pollInterval)
sleepDurationDoubled == 2 * pollInterval
sleepDuration == pollInterval

\* `Task failed: ${exitstatus || 'unknown error'}`
TaskFailedMessageRaw(exitstatus) == <<"Task failed: ", exitstatus>>
TaskFailedMessage(exitstatus) ==
    <<"Task failed: ", IF Truthy(exitstatus) THEN exitstatus ELSE "unknown error">>

TimedOutError(timeout) ==
    [message |-> <<"Task timed out after ", timeout, "ms">>,
     context |-> [timeoutMs |-> timeout]]

TaskFailedError(exitstatus) ==
    [message |-> TaskFailedMessage(exitstatus),
     context |-> [exitstatus |-> exitstatus]]

PollFailedError ==
    [message |-> <<"Failed to poll task status">>,
     context |-> [message |-> "Unknown error"]]

\* what the loop does with a query that resolved to taskStatus
AfterQueryNoRetry(out) ==
    IF out.kind = "none" THEN "fail"
    ELSE IF out.status = "running" THEN "sleep"
    ELSE IF out.exitstatus = "OK" THEN "succeed"
    ELSE "fail"
AfterQueryAnyCase(out) ==
    IF out.kind = "none" THEN "sleep"
    ELSE IF out.status = "running" THEN "sleep"
    ELSE IF out.exitstatus \in {"OK", "ok"} THEN "succeed"
    ELSE "fail"
AfterQuery(out) ==
    IF out.kind = "none" THEN "sleep"
    ELSE IF out.status = "running" THEN "sleep"
    ELSE IF out.exitstatus = "OK" THEN "succeed"
    ELSE "fail"

\* the timer would also end when the timeout has expired
TimerFiredOrExpired(left, t, start, timeout) ==
    left <= 0 \/ t - start > timeout
\* the setTimeout promise resolves when the timer has run for its duration
TimerFired(left, t, start, timeout) == left <= 0

\* a failure that is built but not returned lets the loop go on
PcAfterNoReturn(decision) == IF decision = "succeed" THEN "done" ELSE "sleep"
\* `continue` after the sleep, `return` otherwise
PcAfter(decision) == IF decision = "sleep" THEN "sleep" ELSE "done"

\* the timeout check as it would be with >= for >
TimedOutInclusive(t, start, timeout) == t - start >= timeout
\* Date.now() - startTime > timeoutMs
TimedOut(t, start, timeout) == t - start > timeout

ErrorKind(r) == IF r.success THEN "success" ELSE r.error.message[1]

InitPoll ==
    /\ pc = "idle"
    /\ allRunning = TRUE
    /\ now = 0
    /\ startTime = 0
    /\ timeoutMs = 0
    /\ sleepLeft = 0
    /\ lastSnap = NoQueryYet
    /\ lastLatency = 0
    /\ queries = 0
    /\ returns = 0
    /\ result = NoResult

\* entry of waitForTask up to the loop
waitForTask ==
    /\ pc = "idle"
    /\ \E t \in Timeouts : timeoutMs' = t
    /\ env' = DisableTlsVerification(config, env)
    /\ startTime' = now
    /\ pc' = "check"
    /\ UNCHANGED <<config, now, sleepLeft, lastSnap, lastLatency, queries,
                   returns, allRunning, result>>

\* top of the loop: the timeout check, then the status query is issued
CheckTimeout ==
    /\ pc = "check"
    /\ IF TimedOut(now, startTime, timeoutMs)
       THEN /\ result' = failure(TimedOutError(timeoutMs))
            /\ returns' = returns + 1
            /\ pc' = "done"
            /\ UNCHANGED queries
       ELSE /\ queries' = queries + 1
            /\ pc' = "query"
            /\ UNCHANGED <<result, returns>>
    /\ UNCHANGED <<config, env, now, startTime, timeoutMs, sleepLeft,
                   lastSnap, lastLatency, allRunning>>

\* the awaited status query settles, and the loop body runs up to the
\* next await or return
QueryReturns ==
    /\ pc = "query"
    /\ \E lat \in Latencies, out \in QueryOutcomes :
         /\ now' = now + lat
         /\ lastLatency' = lat
         /\ lastSnap' = out
         /\ allRunning' = (allRunning /\ out.kind = "status"
                                       /\ out.status = "running")
         /\ IF out.kind = "throw"
            THEN /\ result' = Catch(PollFailedError)
                 /\ returns' = returns + 1
                 /\ pc' = "done"
                 /\ UNCHANGED sleepLeft
            ELSE LET decision == AfterQuery(out)
                 IN  /\ pc' = PcAfter(decision)
                     /\ sleepLeft' = IF PcAfter(decision) = "sleep"
                                     THEN sleepDuration ELSE sleepLeft
                     /\ CASE decision = "sleep" ->
                               UNCHANGED <<result, returns>>
                          [] decision = "succeed" ->
                               /\ result' = success("undefined")
                               /\ returns' = returns + 1
                          [] decision = "fail" ->
                               /\ result' = failure(TaskFailedError(out.exitstatus))
                               /\ returns' = returns + 1
    /\ UNCHANGED <<config, env, startTime, timeoutMs, queries>>

\* time passes while the setTimeout promise is pending; when the timer
\* has run for its whole duration the loop continues
SleepTick ==
    /\ pc = "sleep"
    /\ sleepLeft > 0
    /\ now' = now + TimeStep
    /\ sleepLeft' = sleepLeft - TimeStep
    /\ pc' = IF TimerFired(sleepLeft - TimeStep, now + TimeStep, startTime,
                           timeoutMs)
             THEN "check" ELSE "sleep"
    /\ UNCHANGED <<config, env, startTime, timeoutMs, lastSnap, lastLatency,
                   queries, returns, allRunning, result>>

----------------------------------------------------------------------------
(* Resource listing: ProxmoxRepository.listResources, fetchVMIPAddress *)

\* the name is compared as it is
ToLowerCaseNot(name) == name
\* name.toLowerCase(), names being sequences of characters
ToLowerCase(name) ==
    [i \in 1..Len(name) |->
        CASE name[i] = "L" -> "l"
          [] name[i] = "O" -> "o"
          [] OTHER -> name[i]]

\* name.includes(part)
Includes(name, part) ==
    \E i \in 1..(Len(name) - Len(part) + 1) :
        \A j \in 1..Len(part) : name[i + j - 1] = part[j]

RECURSIVE FirstIPv4(_, _)
FirstIPv4(addrs, i) ==
    IF i > Len(addrs) THEN Null
    ELSE IF addrs[i].type = "ipv4" /\ Truthy(addrs[i].address)
         THEN addrs[i].address
         ELSE FirstIPv4(addrs, i + 1)

\* for (const addr of iface['ip-addresses']) ... return null
extractIPv4FromInterface(iface) == FirstIPv4(iface.addrs, 1)

RECURSIVE FirstInterfaceIPv4(_, _)
FirstInterfaceIPv4(ifaces, i) ==
    IF i > Len(ifaces) THEN Null
    ELSE IF Includes(ToLowerCase(ifaces[i].name), <<"l", "o">>)
         THEN FirstInterfaceIPv4(ifaces, i + 1)
         ELSE LET ipv4 == extractIPv4FromInterface(ifaces[i])
              IN  IF ipv4 # Null THEN ipv4
                  ELSE FirstInterfaceIPv4(ifaces, i + 1)

\* the guest agent's answer is a record [ok, isArray, result]; a failed call
\* throws, and networkInfo.result may be missing or not an array
fetchVMIPAddress(agent) ==
    IF ~agent.ok THEN Null
    ELSE IF ~agent.isArray THEN Null
    ELSE FirstInterfaceIPv4(agent.result, 1)

Loopback ==
    [name |-> <<"l", "o">>,
     addrs |-> <<[type |-> "ipv4", address |-> "127.0.0.1"]>>]
Eth0(ip) ==
    [name |-> <<"e", "t", "h", "0">>,
     addrs |-> <<[type |-> "ipv6", address |-> "fe80::1"],
                 [type |-> "ipv4", address |-> ip]>>]

AgentDown == [ok |-> FALSE, isArray |-> FALSE, result |-> <<>>]
AgentUp(ip) == [ok |-> TRUE, isArray |-> TRUE, result |-> <<Loopback, Eth0(ip)>>]

VmidPool == {100 * k : k \in 1..MaxResources}
AbsentVmid == 999

NameOf(vmid) == IF vmid = 100 THEN "ubuntu-web" ELSE "nginx-proxy"
IpOf(vmid) == IF vmid = 100 THEN "192.168.1.10" ELSE "192.168.1.20"

\* the raw records of the cluster resources endpoint for one vmid
RawResources(vmid) ==
    {[vmid |-> vmid, type |-> tt[1], template |-> tt[2], name |-> NameOf(vmid),
      node |-> "pve", status |-> sa[1], agent |-> sa[2]] :
        tt \in {<<"qemu", 0>>, <<"lxc", 0>>, <<"qemu", 1>>},
        sa \in {<<"running", AgentUp(IpOf(vmid))>>, <<"running", AgentDown>>,
                <<"stopped", AgentDown>>}}

DistinctVmids(cl) ==
    \A i, j \in 1..Len(cl) : i # j => cl[i].vmid # cl[j].vmid

Clusters ==
    {cl \in UNION {[1..n -> UNION {RawResources(v) : v \in VmidPool}] :
                      n \in 0..MaxResources} : DistinctVmids(cl)}

\* resources.filter(...) of listResources
IsListed(resource, resourceType) ==
    IF resourceType = "qemu"
    THEN resource.type = "qemu" /\ resource.template # 1
    ELSE resource.type = "lxc"

ToDTO(resource) ==
    [ipv4Address |-> fetchVMIPAddress(resource.agent),
     name |-> resource.name,
     node |-> resource.node,
     status |-> resource.status,
     vmid |-> resource.vmid]

RECURSIVE WithNetworkInfo(_, _, _)
WithNetworkInfo(cl, resourceType, i) ==
    IF i > Len(cl) THEN <<>>
    ELSE IF IsListed(cl[i], resourceType)
         THEN <<ToDTO(cl[i])>> \o WithNetworkInfo(cl, resourceType, i + 1)
         ELSE WithNetworkInfo(cl, resourceType, i + 1)

\* apiOk = FALSE: the cluster resources request throws
listResources(cl, resourceType, apiOk) ==
    IF ~apiOk
    THEN Catch([message |-> <<"Failed to retrieve ", resourceType,
                             " resources from Proxmox API">>])
    ELSE success(WithNetworkInfo(cl, resourceType, 1))

----------------------------------------------------------------------------
(* Connection orchestrator: ProxmoxSSHService *)

\* the two display names the wrong way round
resourceTypeNameSwapped(resourceType) ==
    IF resourceType = "qemu" THEN "container" ELSE "VM"
\* const resourceTypeName = resourceType === 'qemu' ? 'VM' : 'container'
resourceTypeName(resourceType) == IF resourceType = "qemu" THEN "VM" ELSE "container"

\* data.find((r) => r.vmid === vmid): the index of the first match, 0 if none
FindIndex(data, vmid) ==
    IF \E i \in 1..Len(data) : data[i].vmid = vmid
    THEN CHOOSE i \in 1..Len(data) :
            /\ data[i].vmid = vmid
            /\ \A j \in 1..(i - 1) : data[j].vmid # vmid
    ELSE 0

RetrieveFailed(resourceType) ==
    [message |-> <<"Failed to retrieve ", resourceType,
                   " resources from Proxmox API">>]
NotFoundError(vmid, resourceType) ==
    [message |-> <<resourceTypeName(resourceType), " with VMID ", vmid, " not found">>]
NoIpError(vmid, resourceType) ==
    [message |-> <<"Cannot connect to ", resourceTypeName(resourceType), vmid,
                   ": IP address not available.">>]

\* the address is returned without the check that there is one
getResourceIPAddressUnchecked(resourcesResult, vmid, resourceType) ==
    IF ~resourcesResult.success THEN failure(RetrieveFailed(resourceType))
    ELSE LET i == FindIndex(resourcesResult.data, vmid)
         IN  IF i = 0 THEN failure(NotFoundError(vmid, resourceType))
             ELSE success(resourcesResult.data[i].ipv4Address)
getResourceIPAddress(resourcesResult, vmid, resourceType) ==
    IF ~resourcesResult.success THEN failure(RetrieveFailed(resourceType))
    ELSE LET i == FindIndex(resourcesResult.data, vmid)
         IN  IF i = 0 THEN failure(NotFoundError(vmid, resourceType))
             ELSE IF ~Truthy(resourcesResult.data[i].ipv4Address)
                  THEN failure(NoIpError(vmid, resourceType))
                  ELSE success(resourcesResult.data[i].ipv4Address)

\* every listed resource is returned, whatever its status
getRunningResourcesUnfiltered(resourcesResult, resourceType) ==
    IF ~resourcesResult.success
    THEN failure([message |-> <<"Failed to retrieve ", resourceType,
                                " resources from Proxmox API">>,
                  cause |-> resourcesResult.error])
    ELSE success(resourcesResult.data)
\* resourcesResult is the answer of repository.listResources(resourceType)
getRunningResources(resourcesResult, resourceType) ==
    IF ~resourcesResult.success
    THEN failure([message |-> <<"Failed to retrieve ", resourceType,
                                " resources from Proxmox API">>,
                  cause |-> resourcesResult.error])
    ELSE success(SelectSeq(resourcesResult.data,
                           LAMBDA resource : resource.status = "running"))

\* the FQDN lookup makes the address check of the IP lookup
getResourceFQDNNeedsAddress(resourcesResult, vmid, resourceType) ==
    IF ~resourcesResult.success THEN failure(RetrieveFailed(resourceType))
    ELSE LET i == FindIndex(resourcesResult.data, vmid)
         IN  IF i = 0 THEN failure(NotFoundError(vmid, resourceType))
             ELSE IF ~Truthy(resourcesResult.data[i].ipv4Address)
                  THEN failure(NoIpError(vmid, resourceType))
                  ELSE success(<<resourcesResult.data[i].name, ".home.sflab.io">>)
\* the host name is returned without the domain
getResourceFQDNBareName(resourcesResult, vmid, resourceType) ==
    IF ~resourcesResult.success THEN failure(RetrieveFailed(resourceType))
    ELSE LET i == FindIndex(resourcesResult.data, vmid)
         IN  IF i = 0 THEN failure(NotFoundError(vmid, resourceType))
             ELSE success(<<resourcesResult.data[i].name>>)
\* return success(`${resource.name}.home.sflab.io`)
getResourceFQDN(resourcesResult, vmid, resourceType) ==
    IF ~resourcesResult.success THEN failure(RetrieveFailed(resourceType))
    ELSE LET i == FindIndex(resourcesResult.data, vmid)
         IN  IF i = 0 THEN failure(NotFoundError(vmid, resourceType))
             ELSE success(<<resourcesResult.data[i].name, ".home.sflab.io">>)

\* the error of the FQDN lookup is passed on instead
BothFailedErrorFromFqdn(vmid, resourceType) == NotFoundError(vmid, resourceType)
BothFailedError(vmid, resourceType) ==
    [message |-> <<"Cannot connect to ", resourceTypeName(resourceType), vmid,
                   ": IP address not available and FQDN resolution failed.">>]

\* new ServiceError(`SSH connection failed: ${execResult.error.message}`,
\*                  {cause: execResult.error, ...})
SshFailedError(error) ==
    [message |-> <<"SSH connection failed: ", error.message>>, cause |-> error]

\* what commandExecutor.executeCommand('ssh', ...) answers: the session ended
\* with exit code 0; ssh ended with a non-zero exit code (the executor runs
\* with reject: false and reports it as a success carrying the exit code);
\* ssh could not be run at all
ExecOutcomes ==
    {success([exitCode |-> 0]), success([exitCode |-> 255]),
     failure([message |-> "Command not found: ssh"])}

\* the FQDN lookup is made for every connection
FallsBackAlways(ipResult) == TRUE
\* if (ipResult.success) { ... } else { fall back to FQDN }
FallsBack(ipResult) == ~ipResult.success

DefaultUsername == "admin"
DefaultKeyPath == "~/.ssh/admin_id_ecdsa"

ConnIdle ==
    [pc |-> "idle", vmid |-> 0, resourceType |-> "qemu",
     username |-> DefaultUsername, keyPath |-> DefaultKeyPath,
     fqdnListing |-> NoResult, execResult |-> NoResult,
     ipResult |-> NoResult, fqdnResult |-> NoResult,
     ipCalls |-> 0, fqdnCalls |-> 0,
     connectionTarget |-> Null, connectionMethod |-> Null,
     sshArgs |-> <<>>, result |-> NoResult]

InitConn ==
    /\ cluster \in Clusters
    /\ conn = ConnIdle

InitConnIdle ==
    /\ cluster = <<>>
    /\ conn = ConnIdle

\* connectSSH(vmid, resourceType, username = 'admin',
\*            keyPath = '~/.ssh/admin_id_ecdsa'): the call as it starts
connectSSHCall(vmid, resourceType, username, keyPath) ==
    [conn EXCEPT
       !.pc = "ip",
       !.vmid = vmid,
       !.resourceType = resourceType,
       !.username = IF username = Undefined THEN DefaultUsername ELSE username,
       !.keyPath = IF keyPath = Undefined THEN DefaultKeyPath ELSE keyPath]

\* the call of connectSSH with its arguments (defaults filled in)
connectSSH ==
    /\ conn.pc = "idle"
    /\ \E vmid \in VmidPool \cup {AbsentVmid}, resourceType \in {"qemu", "lxc"},
          cred \in {<<Undefined, Undefined>>, <<"root", "~/.ssh/custom_key">>} :
         conn' = connectSSHCall(vmid, resourceType, cred[1], cred[2])
    /\ UNCHANGED <<config, env, cluster>>

\* const ipResult = await this.getResourceIPAddress(vmid, resourceType)
ResolveIP ==
    /\ conn.pc = "ip"
    /\ env' = DisableTlsVerification(config, env)
    /\ \E apiOk \in BOOLEAN :
         LET resourcesResult == listResources(cluster, conn.resourceType, apiOk)
             ipResult == getResourceIPAddress(resourcesResult,
                                              conn.vmid, conn.resourceType)
         IN  conn' = IF FallsBack(ipResult)
                     THEN [conn EXCEPT !.pc = "fqdn",
                                       !.ipResult = ipResult,
                                       !.ipCalls = @ + 1]
                     ELSE [conn EXCEPT !.pc = "ssh",
                                       !.ipResult = ipResult,
                                       !.ipCalls = @ + 1,
                                       !.connectionTarget = ipResult.data,
                                       !.connectionMethod = "ip"]
    /\ UNCHANGED <<config, cluster>>

\* const fqdnResult = await this.getResourceFQDN(vmid, resourceType)
ResolveFQDN ==
    /\ conn.pc = "fqdn"
    /\ env' = DisableTlsVerification(config, env)
    /\ \E apiOk \in BOOLEAN :
         LET resourcesResult == listResources(cluster, conn.resourceType, apiOk)
             fqdnResult == getResourceFQDN(resourcesResult,
                                           conn.vmid, conn.resourceType)
         IN  conn' = IF ~fqdnResult.success
                     THEN [conn EXCEPT !.pc = "done",
                                       !.fqdnListing = resourcesResult,
                                       !.fqdnResult = fqdnResult,
                                       !.fqdnCalls = @ + 1,
                                       !.result = failure(BothFailedError(
                                                     conn.vmid, conn.resourceType))]
                     ELSE [conn EXCEPT !.pc = "ssh",
                                       !.fqdnListing = resourcesResult,
                                       !.fqdnResult = fqdnResult,
                                       !.fqdnCalls = @ + 1,
                                       !.connectionTarget = fqdnResult.data,
                                       !.connectionMethod = "fqdn"]
    /\ UNCHANGED <<config, cluster>>

\* executeCommand('ssh', ['-i', keyPath, `${username}@${connectionTarget}`])
ExecuteSSH ==
    /\ conn.pc = "ssh"
    /\ \E execResult \in ExecOutcomes :
         conn' = [conn EXCEPT
                    !.pc = "done",
                    !.sshArgs = <<"-i", conn.keyPath,
                                  <<conn.username, "@", conn.connectionTarget>>>>,
                    !.execResult = execResult,
                    !.result = IF execResult.success THEN success("undefined")
                               ELSE failure(SshFailedError(execResult.error))]
    /\ UNCHANGED <<config, env, cluster>>

\* the hypervisor: a resource is deleted while the call is under way
ResourceDeleted ==
    /\ conn.pc \in {"ip", "fqdn"}
    /\ \E i \in 1..Len(cluster) :
         cluster' = [j \in 1..(Len(cluster) - 1) |->
                        IF j < i THEN cluster[j] ELSE cluster[j + 1]]
    /\ UNCHANGED <<config, env, conn>>

\* the hypervisor: the guest agent of a resource starts or stops answering
AgentChanges ==
    /\ conn.pc \in {"ip", "fqdn"}
    /\ \E i \in 1..Len(cluster) :
         cluster' = [cluster EXCEPT ![i].agent =
                        IF cluster[i].agent.ok THEN AgentDown
                        ELSE AgentUp(IpOf(cluster[i].vmid))]
    /\ UNCHANGED <<config, env, conn>>

----------------------------------------------------------------------------
(* The API endpoint and the repeated lookups of a caller *)

SvcIdle ==
    [calls |-> 0, lookup |-> "ip", vmid |-> 0, resourceType |-> "qemu",
     listing |-> NoResult, result |-> NoResult, first |-> NoResult,
     changed |-> FALSE]

\* the locals of listResources: resources (the filtered response) and
\* resourcesWithNetworkInfo; started / completed / inFlight / failed tell which
\* guest-agent queries (by index in resources) began, returned, are under
\* way and threw
ListIdle ==
    [pc |-> "idle", resourceType |-> "qemu", fetched |-> FALSE,
     resources |-> <<>>, resourcesWithNetworkInfo |-> <<>>,
     started |-> <<>>, completed |-> <<>>, inFlight |-> {}, failed |-> {},
     result |-> NoResult]
NoCall ==
    [kind |-> "none", type |-> "undefined", value |-> Undefined,
     isError |-> FALSE, message |-> <<>>]

OpIdle == [pc |-> "idle", name |-> "none", call |-> NoCall, result |-> NoResult]

InitOtherIdle ==
    /\ api = ApiFine
    /\ svc = SvcIdle
    /\ list = ListIdle
    /\ op = OpIdle

\* clusters listed in ascending vmid order
ClustersByVmid ==
    {cl \in Clusters : \A i \in 1..(Len(cl) - 1) : cl[i].vmid < cl[i + 1].vmid}

InitService ==
    /\ cluster \in ClustersByVmid
    /\ conn = ConnIdle
    /\ api \in {a \in ApiStates : a.up /\ a.wellFormed}
    /\ svc = SvcIdle
    /\ list = ListIdle
    /\ op = OpIdle

\* a lookup may be repeated by the caller (the connect command looks the address
\* up and connectSSH looks it up again)
MaxLookups == 2

\* one lookup of the service: lookup = "ip" is getResourceIPAddress,
\* lookup = "fqdn" is getResourceFQDN, lookup = "running" is
\* getRunningResources (which takes no vmid)
Lookup(lookup, vmid, resourceType) ==
    /\ env' = DisableTlsVerification(config, env)
    /\ LET apiOk == RequestOk(api, RequestEnv(config, env)) /\ api.wellFormed
           resourcesResult == listResources(cluster, resourceType, apiOk)
           r == IF lookup = "ip"
                THEN getResourceIPAddress(resourcesResult, vmid, resourceType)
                ELSE IF lookup = "fqdn"
                THEN getResourceFQDN(resourcesResult, vmid, resourceType)
                ELSE getRunningResources(resourcesResult, resourceType)
       IN  svc' = [svc EXCEPT !.calls = @ + 1,
                              !.lookup = lookup,
                              !.vmid = vmid,
                              !.resourceType = resourceType,
                              !.listing = resourcesResult,
                              !.result = r,
                              !.first = IF svc.calls = 0 THEN r ELSE @]
    /\ UNCHANGED <<config, cluster, conn, api, list, op>>

\* the first lookup of the caller
FirstLookup ==
    /\ svc.calls = 0
    /\ \/ \E lookup \in {"ip", "fqdn"}, vmid \in VmidPool \cup {AbsentVmid},
             resourceType \in {"qemu", "lxc"} :
            Lookup(lookup, vmid, resourceType)
       \/ \E resourceType \in {"qemu", "lxc"} :
            Lookup("running", 0, resourceType)

\* the same lookup again
RepeatedLookup ==
    /\ svc.calls \in 1..(MaxLookups - 1)
    /\ Lookup(svc.lookup, svc.vmid, svc.resourceType)

\* the hypervisor between two lookups: a resource is deleted
ResourceDeletedBetweenLookups ==
    /\ svc.calls \in 1..(MaxLookups - 1)
    /\ ~svc.changed
    /\ \E i \in 1..Len(cluster) :
         cluster' = [j \in 1..(Len(cluster) - 1) |->
                        IF j < i THEN cluster[j] ELSE cluster[j + 1]]
    /\ svc' = [svc EXCEPT !.changed = TRUE]
    /\ UNCHANGED <<config, env, conn, api, list, op>>

\* the hypervisor between two lookups: a guest agent starts or stops answering
AgentChangesBetweenLookups ==
    /\ svc.calls \in 1..(MaxLookups - 1)
    /\ ~svc.changed
    /\ \E i \in 1..Len(cluster) :
         cluster' = [cluster EXCEPT ![i].agent =
                        IF cluster[i].agent.ok THEN AgentDown
                        ELSE AgentUp(IpOf(cluster[i].vmid))]
    /\ svc' = [svc EXCEPT !.changed = TRUE]
    /\ UNCHANGED <<config, env, conn, api, list, op>>

\* the hypervisor between two lookups: the endpoint stops answering
ApiGoesDown ==
    /\ svc.calls \in 1..(MaxLookups - 1)
    /\ ~svc.changed
    /\ api.up
    /\ api' = [api EXCEPT !.up = FALSE]
    /\ svc' = [svc EXCEPT !.changed = TRUE]
    /\ UNCHANGED <<config, env, cluster, conn, list, op>>

----------------------------------------------------------------------------
(* ProxmoxRepository.listResources, one guest-agent query at a time *)

Range(seq) == {seq[k] : k \in 1..Len(seq)}

UnexpectedFormat == [message |-> <<"Unexpected API response format">>]

\* (response as any[]).filter(...)
FilterResources(cl, resourceType) ==
    SelectSeq(cl, LAMBDA resource : IsListed(resource, resourceType))

InitList ==
    /\ cluster \in Clusters
    /\ conn = ConnIdle
    /\ api \in ApiStates
    /\ svc = SvcIdle
    /\ list = ListIdle
    /\ op = OpIdle

\* the call of listResources up to the filtered response
listResourcesCall ==
    /\ list.pc = "idle"
    /\ env' = DisableTlsVerification(config, env)
    /\ \E resourceType \in {"qemu", "lxc"} :
         list' =
           IF ~RequestOk(api, RequestEnv(config, env))
           THEN [list EXCEPT !.pc = "done",
                             !.resourceType = resourceType,
                             !.result = Catch(RetrieveFailed(resourceType))]
           ELSE IF ~api.wellFormed
           THEN [list EXCEPT !.pc = "done",
                             !.resourceType = resourceType,
                             !.result = failure(UnexpectedFormat)]
           ELSE [list EXCEPT !.pc = "loop",
                             !.resourceType = resourceType,
                             !.fetched = TRUE,
                             !.resources = FilterResources(cluster, resourceType)]
    /\ UNCHANGED <<config, cluster, conn, api, svc, op>>

\* the queries are all started at once (Promise.all over resources.map)
MayStartQueryAtOnce(i, l) == i \notin Range(l.started)
\* for (const resource of resources) { ... await this.fetchVMIPAddress(...) }
MayStartQuery(i, l) == l.inFlight = {} /\ i = Len(l.completed) + 1

\* fetchVMIPAddress without its try / catch
AgentQueryOutcomeUncaught(agent) ==
    [threw |-> ~agent.ok, ipv4Address |-> fetchVMIPAddress(agent)]
\* fetchVMIPAddress: what the call gives back to the loop of listResources
AgentQueryOutcome(agent) ==
    [threw |-> FALSE, ipv4Address |-> fetchVMIPAddress(agent)]

\* this.fetchVMIPAddress(proxmox, resource.node, resource.vmid, resourceType)
\* is called
AgentQueryStarts ==
    /\ list.pc = "loop"
    /\ \E i \in 1..Len(list.resources) :
         /\ MayStartQuery(i, list)
         /\ list' = [list EXCEPT !.started = Append(@, i),
                                 !.inFlight = @ \cup {i}]
    /\ UNCHANGED <<config, env, cluster, conn, api, svc, op>>

\* the awaited fetchVMIPAddress settles and the resource is pushed; the guest
\* agent answers as the cluster has it, or the query fails
AgentQueryReturns ==
    /\ list.pc = "loop"
    /\ \E i \in list.inFlight :
       \E agent \in {list.resources[i].agent, AgentDown} :
         LET resource == list.resources[i]
             outcome == AgentQueryOutcome(agent)
         IN  list' =
               IF outcome.threw
               THEN [list EXCEPT !.pc = "done",
                                 !.inFlight = @ \ {i},
                                 !.failed = @ \cup {i},
                                 !.result = Catch(RetrieveFailed(list.resourceType))]
               ELSE [list EXCEPT
                       !.inFlight = @ \ {i},
                       !.completed = Append(@, i),
                       !.failed = IF agent.ok THEN @ ELSE @ \cup {i},
                       !.resourcesWithNetworkInfo =
                           Append(@, [ipv4Address |-> outcome.ipv4Address,
                                      name |-> resource.name,
                                      node |-> resource.node,
                                      status |-> resource.status,
                                      vmid |-> resource.vmid])]
    /\ UNCHANGED <<config, env, cluster, conn, api, svc, op>>

\* return success(resourcesWithNetworkInfo)
listResourcesReturns ==
    /\ list.pc = "loop"
    /\ Len(list.completed) = Len(list.resources)
    /\ list' = [list EXCEPT !.pc = "done",
                            !.result = success(list.resourcesWithNetworkInfo)]
    /\ UNCHANGED <<config, env, cluster, conn, api, svc, op>>

ProbeIdle == [pc |-> "idle", agent |-> AgentDown, result |-> Null]
CmdIdle ==
    [pc |-> "idle", command |-> "none", userFlag |-> "<undefined>",
     keyFlag |-> "<undefined>", user |-> "<undefined>", key |-> "<undefined>",
     vmid |-> 0, message |-> <<>>, exit |-> 0]
\* the locals of ProxmoxVmStart.run / ProxmoxVmStop.run: vmids is vmidsToStart,
\* vms is vmsToStart, done is started / stopped; issued / returned / inFlight
\* tell, by index in vms, which service.startVM calls began, returned and are
\* under way
BatchIdle ==
    [pc |-> "idle", operation |-> "start", jsonMode |-> FALSE,
     vmids |-> <<>>, vms |-> <<>>, issued |-> <<>>, returned |-> <<>>,
     inFlight |-> {}, done |-> <<>>, failed |-> <<>>, exit |-> 0,
     message |-> <<>>]
\* at most MaxFlows create-VM flows run against the cluster at a time
MaxFlows == 2

\* a flow that allocates a vmid and clones a template to it: listing is the
\* set of ids the allocator fetched, usedAtSubmit tells whether the id was in
\* use when the clone request reached the hypervisor
FlowIdle ==
    [pc |-> "idle", vmid |-> 0, listing |-> {}, usedAtSubmit |-> FALSE]
FlowsIdle == [f \in 1..MaxFlows |-> FlowIdle]

InitMoreIdle ==
    /\ probe = ProbeIdle
    /\ cmd = CmdIdle
    /\ batch = BatchIdle
    /\ flows = FlowsIdle

----------------------------------------------------------------------------
(* The connect commands: proxmox vm connect, proxmox container connect *)

\* the values of --user and --key on the command line (Undefined: not given)
UserFlags == {Undefined, "ubuntu"}
KeyFlags == {Undefined, "~/.ssh/id_rsa"}

\* Flags.string({default: ...})
FlagValue(flag, default) == IF flag = Undefined THEN default ELSE flag

VmConnectUserDefault == "admin"
VmConnectKeyDefault == "~/.ssh/admin_id_ecdsa"
ContainerConnectUserDefault == "root"
ContainerConnectKeyDefault == "~/.ssh/admin_id_ecdsa"

InitCommand ==
    /\ cluster \in ClustersByVmid
    /\ conn = ConnIdle
    /\ cmd = CmdIdle

\* a caller of the service calls connectSSH itself
ServiceConnect ==
    /\ cmd.pc = "idle"
    /\ \E vmid \in VmidPool \cup {AbsentVmid}, resourceType \in {"qemu", "lxc"},
          userFlag \in UserFlags, keyFlag \in KeyFlags :
         /\ cmd' = [cmd EXCEPT !.pc = "connect", !.command = "connectSSH",
                               !.userFlag = userFlag, !.keyFlag = keyFlag,
                               !.vmid = vmid]
         /\ conn' = connectSSHCall(vmid, resourceType, userFlag, keyFlag)
    /\ UNCHANGED <<config, env, cluster>>

\* ProxmoxVMConnect.run up to the call of connectSSH(vmid, 'qemu', user, key)
VmConnect ==
    /\ cmd.pc = "idle"
    /\ \E vmid \in VmidPool \cup {AbsentVmid},
          userFlag \in UserFlags, keyFlag \in KeyFlags :
         LET user == FlagValue(userFlag, VmConnectUserDefault)
             key == FlagValue(keyFlag, VmConnectKeyDefault)
         IN  /\ cmd' = [cmd EXCEPT !.pc = "connect", !.command = "vm",
                                   !.userFlag = userFlag, !.keyFlag = keyFlag,
                                   !.user = user, !.key = key, !.vmid = vmid,
                                   !.message = <<"Connecting to VM ", vmid,
                                                 " as ", user, "...">>]
             /\ conn' = connectSSHCall(vmid, "qemu", user, key)
    /\ UNCHANGED <<config, env, cluster>>

\* ProxmoxContainerConnect.run: the flags are parsed; the vmid is given or not
ContainerConnect ==
    /\ cmd.pc = "idle"
    /\ \E arg \in {[given |-> FALSE, value |-> 0]}
                   \cup {[given |-> TRUE, value |-> v] :
                            v \in VmidPool \cup {AbsentVmid}},
          userFlag \in UserFlags, keyFlag \in KeyFlags :
         cmd' = [cmd EXCEPT !.pc = IF arg.given THEN "lookup" ELSE "select",
                            !.command = "container",
                            !.userFlag = userFlag, !.keyFlag = keyFlag,
                            !.user = FlagValue(userFlag, ContainerConnectUserDefault),
                            !.key = FlagValue(keyFlag, ContainerConnectKeyDefault),
                            !.vmid = arg.value]
    /\ UNCHANGED <<config, env, cluster, conn>>

\* `${container.vmid} - ${container.name} (${ipDisplay})`
Choice(container) ==
    <<container.vmid, " - ", container.name, " (",
      IF container.ipv4Address = Null THEN "No IP" ELSE container.ipv4Address, ")">>

\* Number.parseInt(selectionResult.data.split(' - ')[0], 10)
ParseChoice(choice) == choice[1]

\* if (vmid === undefined) { ... }: the running containers are listed and the
\* user picks one or cancels
SelectContainer ==
    /\ cmd.pc = "select"
    /\ env' = DisableTlsVerification(config, env)
    /\ \E apiOk \in BOOLEAN :
         LET runningResult ==
                 getRunningResources(listResources(cluster, "lxc", apiOk), "lxc")
         IN  IF ~runningResult.success
             THEN cmd' = [cmd EXCEPT !.pc = "error", !.exit = 1,
                                     !.message = runningResult.error.message]
             ELSE IF Len(runningResult.data) = 0
             THEN cmd' = [cmd EXCEPT !.pc = "error", !.exit = 1,
                            !.message = <<"No running containers found. Start a container first or provide a VMID explicitly.">>]
             ELSE \/ cmd' = [cmd EXCEPT !.pc = "cancelled",
                                        !.message = <<"Selection cancelled.">>]
                  \/ \E k \in 1..Len(runningResult.data) :
                        cmd' = [cmd EXCEPT
                                  !.pc = "lookup",
                                  !.vmid = ParseChoice(Choice(runningResult.data[k]))]
    /\ UNCHANGED <<config, cluster, conn>>

\* the lookups made for the message, then connectSSH(vmid, 'lxc', user, key)
ContainerLookup ==
    /\ cmd.pc = "lookup"
    /\ env' = DisableTlsVerification(config, env)
    /\ \E ipOk \in BOOLEAN, fqdnOk \in BOOLEAN :
         LET ipResult == getResourceIPAddress(
                             listResources(cluster, "lxc", ipOk), cmd.vmid, "lxc")
             fqdnResult == getResourceFQDN(
                               listResources(cluster, "lxc", fqdnOk), cmd.vmid, "lxc")
         IN  cmd' = [cmd EXCEPT
                       !.pc = "connect",
                       !.message =
                          IF ipResult.success
                          THEN <<"Connecting to container ", cmd.vmid,
                                 " as ", cmd.user, "...">>
                          ELSE IF fqdnResult.success
                          THEN <<"Connecting to container ", cmd.vmid, " (",
                                 fqdnResult.data, ") as ", cmd.user, "...">>
                          ELSE <<"IP address not available for container ", cmd.vmid,
                                 ", trying FQDN fallback...">>]
    /\ conn' = connectSSHCall(cmd.vmid, "lxc", cmd.user, cmd.key)
    /\ UNCHANGED <<config, cluster>>

\* if (!result.success) this.error(result.error.message, {exit: 1});
\* this.log('SSH session closed.')
CommandExit ==
    /\ cmd.pc = "connect"
    /\ cmd.command \in {"vm", "container"}
    /\ conn.pc = "done"
    /\ cmd' = IF conn.result.success
              THEN [cmd EXCEPT !.pc = "closed", !.message = <<"SSH session closed.">>]
              ELSE [cmd EXCEPT !.pc = "error", !.exit = 1,
                               !.message = conn.result.error.message]
    /\ UNCHANGED <<config, env, cluster, conn>>

----------------------------------------------------------------------------
(* The batch commands: proxmox vm start, proxmox vm stop *)

\* a command line names at most MaxBatch VMs
MaxBatch == 2

\* Number.parseInt of an argument that is not a number
NaN == -1

\* this.argv.map((arg) => Number.parseInt(arg, 10))
\*          .filter((vmid) => !Number.isNaN(vmid))
ProvidedVmids(argv) == SelectSeq(argv, LAMBDA vmid : vmid # NaN)

Argvs ==
    UNION {[1..n -> VmidPool \cup {AbsentVmid, NaN}] : n \in 0..MaxBatch}

\* the VMs of the cluster, running or stopped, in vmid order
BatchClusters ==
    {cl \in ClustersByVmid :
        \A k \in 1..Len(cl) :
            /\ cl[k].type = "qemu"
            /\ cl[k].template = 0
            /\ cl[k].status = "running" => cl[k].agent.ok}

InitBatch ==
    /\ cluster \in BatchClusters
    /\ batch = BatchIdle

\* service.listVMs('qemu') as the command sees it
listVMs(cl, ok) ==
    IF ok THEN success(WithNetworkInfo(cl, "qemu", 1))
    ELSE failure([message |-> <<"Failed to retrieve VMs">>])

\* the status of the VMs the interactive selection offers
SelectableStatus(operation) == IF operation = "start" THEN "stopped" ELSE "running"

\* `${vm.vmid} - ${vm.name} (${vm.node}, ${vm.status})`
BatchChoice(vm) ==
    <<vm.vmid, " - ", vm.name, " (", vm.node, ", ", vm.status, ")">>

\* the selections of the prompt: the chosen entries, in the order of the choices
Selections(choices) ==
    {SelectSeq(choices, LAMBDA c : c \in chosen) : chosen \in SUBSET Range(choices)}

\* run() up to the choice between the interactive mode and the given vmids
BatchRun ==
    /\ batch.pc = "idle"
    /\ \E operation \in {"start", "stop"}, jsonMode \in BOOLEAN, argv \in Argvs :
         LET providedVmids == ProvidedVmids(argv)
         IN  batch' =
               IF Len(providedVmids) = 0
               THEN IF jsonMode
                    THEN [batch EXCEPT !.pc = "error", !.exit = 1,
                                       !.operation = operation,
                                       !.jsonMode = jsonMode,
                                       !.message = <<"JSON mode requires explicit VM IDs">>]
                    ELSE [batch EXCEPT !.pc = "select",
                                       !.operation = operation,
                                       !.jsonMode = jsonMode]
               ELSE [batch EXCEPT !.pc = "load",
                                  !.operation = operation,
                                  !.jsonMode = jsonMode,
                                  !.vmids = providedVmids]
    /\ UNCHANGED <<config, env, cluster>>

\* the interactive mode: the VMs are listed and the user selects some
BatchSelect ==
    /\ batch.pc = "select"
    /\ \E ok \in BOOLEAN :
         LET listResult == listVMs(cluster, ok)
         IN  IF ~listResult.success
             THEN batch' = [batch EXCEPT
                              !.pc = "error", !.exit = 1,
                              !.message = <<"Failed to list VMs: ">>
                                          \o listResult.error.message]
             ELSE LET selectable ==
                          SelectSeq(listResult.data,
                                    LAMBDA vm : vm.status = SelectableStatus(batch.operation))
                      choices == [k \in 1..Len(selectable) |-> BatchChoice(selectable[k])]
                  IN  IF Len(selectable) = 0
                      THEN batch' = [batch EXCEPT
                                       !.pc = "ended",
                                       !.message = <<"No ", SelectableStatus(batch.operation),
                                                     " VMs available to ", batch.operation>>]
                      ELSE \/ batch' = [batch EXCEPT
                                          !.pc = "ended",
                                          !.message = <<"Selection cancelled">>]
                           \/ \E selection \in Selections(choices) :
                                 batch' =
                                   IF Len(selection) = 0
                                   THEN [batch EXCEPT !.pc = "ended",
                                                      !.message = <<"No VMs selected">>]
                                   ELSE [batch EXCEPT
                                           !.pc = "load",
                                           !.vmids = [k \in 1..Len(selection) |->
                                                         ParseChoice(selection[k])]]
    /\ UNCHANGED <<config, env, cluster>>

\* the VM details are loaded for all vmids; a vmid that is not found ends the
\* command before any VM is started
BatchLoad ==
    /\ batch.pc = "load"
    /\ \E ok \in BOOLEAN :
         LET listResult == listVMs(cluster, ok)
         IN  IF ~listResult.success
             THEN batch' = [batch EXCEPT
                              !.pc = "error", !.exit = 1,
                              !.message = <<"Failed to list VMs: ">>
                                          \o listResult.error.message]
             ELSE LET allVms == listResult.data
                      notFoundVmids ==
                          SelectSeq(batch.vmids,
                                    LAMBDA vmid : FindIndex(allVms, vmid) = 0)
                  IN  IF Len(notFoundVmids) > 0
                      THEN IF batch.jsonMode
                           THEN batch' = [batch EXCEPT !.pc = "ended",
                                                       !.failed = notFoundVmids]
                           ELSE batch' = [batch EXCEPT
                                            !.pc = "error", !.exit = 1,
                                            !.message = <<"VM", notFoundVmids, " not found. Use 'homelab proxmox vm list' to see available VMs.">>]
                      ELSE batch' = [batch EXCEPT
                                       !.pc = "loop",
                                       !.vms = [k \in 1..Len(batch.vmids) |->
                                                  allVms[FindIndex(allVms, batch.vmids[k])]]]
    /\ UNCHANGED <<config, env, cluster>>

\* the requests are all issued at once (Promise.all over vmsToStart.map)
MayIssueRequestAtOnce(i, b) == i \notin Range(b.issued)
\* for (const [index, vm] of vmsToStart.entries()) { ... await service.startVM(vmid) }
MayIssueRequest(i, b) == b.inFlight = {} /\ i = Len(b.returned) + 1

\* service.startVM(vmid) / service.stopVM(vmid) is called
RequestIssued ==
    /\ batch.pc = "loop"
    /\ \E i \in 1..Len(batch.vms) :
         /\ MayIssueRequest(i, batch)
         /\ batch' = [batch EXCEPT !.issued = Append(@, i),
                                   !.inFlight = @ \cup {i}]
    /\ UNCHANGED <<config, env, cluster>>

\* the awaited call returns its result: the VM is pushed to started / stopped
\* or to failed; the failure of a single VM ends the command at once
RequestReturns ==
    /\ batch.pc = "loop"
    /\ \E i \in batch.inFlight, ok \in BOOLEAN :
         LET vmid == batch.vms[i].vmid
         IN  batch' =
               IF ok
               THEN [batch EXCEPT !.inFlight = @ \ {i},
                                  !.returned = Append(@, i),
                                  !.done = Append(@, vmid)]
               ELSE IF ~batch.jsonMode /\ Len(batch.vms) = 1
               THEN [batch EXCEPT !.pc = "error", !.exit = 1,
                                  !.inFlight = @ \ {i},
                                  !.returned = Append(@, i),
                                  !.failed = Append(@, vmid),
                                  !.message = <<"Failed to ", batch.operation, " VM">>]
               ELSE [batch EXCEPT !.inFlight = @ \ {i},
                                  !.returned = Append(@, i),
                                  !.failed = Append(@, vmid)]
    /\ UNCHANGED <<config, env, cluster>>

\* after the loop: the JSON output or the summary, exit 1 if a VM failed
BatchSummary ==
    /\ batch.pc = "loop"
    /\ Len(batch.returned) = Len(batch.vms)
    /\ batch' =
         IF batch.jsonMode
         THEN [batch EXCEPT !.pc = "ended"]
         ELSE IF Len(batch.failed) > 0
         THEN [batch EXCEPT !.pc = "error", !.exit = 1,
                            !.message = <<"Some VM ", batch.operation, "s failed">>]
         ELSE [batch EXCEPT !.pc = "ended"]
    /\ UNCHANGED <<config, env, cluster>>

----------------------------------------------------------------------------
(* Flows that allocate a vmid and then clone a template to it *)

InitFlows ==
    /\ response \in SUBSET IdDomain
    /\ allocPc = "idle"
    /\ allocResult = NoResult
    /\ api \in {a \in ApiStates : a.up /\ a.wellFormed}
    /\ flows = FlowsIdle

\* getNextAvailableVmid() of flow f, on the ids in use at this moment
FlowAllocates(f) ==
    /\ flows[f].pc = "idle"
    /\ env' = DisableTlsVerification(config, env)
    /\ flows' = [flows EXCEPT ![f] =
                    IF ~RequestOk(api, RequestEnv(config, env))
                    THEN [@ EXCEPT !.pc = "failed"]
                    ELSE [@ EXCEPT !.pc = "allocated",
                                   !.vmid = NextVmid(response),
                                   !.listing = response]]
    /\ UNCHANGED <<config, response, allocPc, allocResult, api>>

\* cloneFromTemplate(node, templateVmid, newVmid, vmName) of flow f: the
\* hypervisor creates the VM, or rejects the request when the id is in use
\* (the request throws and the call returns 'Failed to clone VM from template')
FlowClones(f) ==
    /\ flows[f].pc = "allocated"
    /\ env' = DisableTlsVerification(config, env)
    /\ IF ~RequestOk(api, RequestEnv(config, env))
       THEN /\ flows' = [flows EXCEPT ![f].pc = "failed"]
            /\ UNCHANGED response
       ELSE IF flows[f].vmid \in response
       THEN /\ flows' = [flows EXCEPT ![f].pc = "rejected",
                                      ![f].usedAtSubmit = TRUE]
            /\ UNCHANGED response
       ELSE /\ flows' = [flows EXCEPT ![f].pc = "cloned"]
            /\ response' = response \cup {flows[f].vmid}
    /\ UNCHANGED <<config, allocPc, allocResult, api>>

----------------------------------------------------------------------------
(* ProxmoxRepository.fetchVMIPAddress on the answers of a guest agent *)

\* an answer lists at most MaxInterfaces interfaces
MaxInterfaces == 2

InterfaceNames ==
    {<<"l", "o">>, <<"L", "o">>, <<"w", "l", "O", "1">>, <<"o", "l">>,
     <<"e", "t", "h", "0">>, <<>>}

AddressLists ==
    {<<>>,
     <<[type |-> "ipv6", address |-> "fe80::1"]>>,
     <<[type |-> "ipv6", address |-> "fe80::1"],
       [type |-> "ipv4", address |-> "192.168.1.10"]>>,
     <<[type |-> "ipv4", address |-> ""],
       [type |-> "ipv4", address |-> "10.0.0.5"]>>}

Interfaces == [name : InterfaceNames, addrs : AddressLists]

AgentAnswers ==
    {AgentDown, [ok |-> TRUE, isArray |-> FALSE, result |-> <<>>]}
    \cup {[ok |-> TRUE, isArray |-> TRUE, result |-> ifaces] :
             ifaces \in UNION {[1..n -> Interfaces] : n \in 0..MaxInterfaces}}

InitProbe ==
    /\ probe \in {[pc |-> "idle", agent |-> a, result |-> Null] : a \in AgentAnswers}
    /\ cmd = CmdIdle
    /\ batch = BatchIdle
    /\ flows = FlowsIdle

\* const ipv4Address = await this.fetchVMIPAddress(...)
fetchVMIPAddressCall ==
    /\ probe.pc = "idle"
    /\ probe' = [probe EXCEPT !.pc = "done",
                              !.result = fetchVMIPAddress(probe.agent)]
    /\ UNCHANGED <<config, env, cluster, conn, otherVars, cmd, batch, flows>>

----------------------------------------------------------------------------
(* The other repository methods, each a single request in try / catch *)

\* what the awaited request of a method does: it returns a value (a string
\* or not) or throws (an Error with a message, or something else)
Returns(type, value) ==
    [kind |-> "returns", type |-> type, value |-> value,
     isError |-> FALSE, message |-> <<>>]
Throws(isError, message) ==
    [kind |-> "throws", type |-> "undefined", value |-> Undefined,
     isError |-> isError, message |-> message]

ApiCallOutcomes ==
    {Returns("string", "UPID:pve:0001"), Returns("string", ""),
     Returns("undefined", Undefined), Returns("object", "[object Object]"),
     Throws(TRUE, <<"connect ECONNREFUSED">>),
     Throws(TRUE, <<"VM 100 ", "is running">>),
     Throws(TRUE, <<"destroy failed">>),
     Throws(FALSE, <<>>)}

\* error instanceof Error ? error.message : 'Unknown error'
ErrorMessageOf(call) == IF call.isError THEN call.message ELSE <<"Unknown error">>

\* errorMessage.includes(part), messages being sequences of fragments
MessageIncludes(message, part) == \E k \in 1..Len(message) : message[k] = part

\* !(!response || typeof response !== 'string')
IsTaskHandle(call) == Truthy(call.value) /\ call.type = "string"

\* the methods that return the UPID of the task they started
TaskHandleResult(call, operation, caught) ==
    IF call.kind = "throws" THEN Catch(caught)
    ELSE IF ~IsTaskHandle(call)
         THEN failure([message |-> <<"Unexpected API response format from ",
                                     operation, " operation">>])
         ELSE success(call.value)

OpDone(name, call, r) == [pc |-> "done", name |-> name, call |-> call, result |-> r]

cloneFromTemplate ==
    /\ op.pc = "idle"
    /\ env' = DisableTlsVerification(config, env)
    /\ \E call \in ApiCallOutcomes :
         op' = OpDone("cloneFromTemplate", call,
                      TaskHandleResult(call, "clone",
                          [message |-> <<"Failed to clone VM from template">>]))
    /\ UNCHANGED <<config, cluster, conn, api, svc, list>>

deleteVM ==
    /\ op.pc = "idle"
    /\ env' = DisableTlsVerification(config, env)
    /\ \E call \in ApiCallOutcomes, vmid \in VmidPool :
         LET errorMessage == ErrorMessageOf(call)
             caught ==
               IF MessageIncludes(errorMessage, "is running")
                  \/ MessageIncludes(errorMessage, "destroy failed")
               THEN [message |-> <<"Delete failed: VM ", vmid,
                       " is running - Stop the VM and rerun the delete command">>]
               ELSE [message |-> <<"Failed to delete VM: ", errorMessage>>]
         IN  op' = OpDone("deleteVM", call,
                          TaskHandleResult(call, "delete", caught))
    /\ UNCHANGED <<config, cluster, conn, api, svc, list>>

setVMConfig ==
    /\ op.pc = "idle"
    /\ env' = DisableTlsVerification(config, env)
    /\ \E call \in ApiCallOutcomes :
         op' = OpDone("setVMConfig", call,
                      IF call.kind = "throws"
                      THEN Catch([message |-> <<"Failed to set VM configuration">>])
                      ELSE success(Undefined))
    /\ UNCHANGED <<config, cluster, conn, api, svc, list>>

startVM ==
    /\ op.pc = "idle"
    /\ env' = DisableTlsVerification(config, env)
    /\ \E call \in ApiCallOutcomes :
         op' = OpDone("startVM", call,
                      TaskHandleResult(call, "start",
                          [message |-> <<"Failed to start VM: ",
                                         ErrorMessageOf(call)>>]))
    /\ UNCHANGED <<config, cluster, conn, api, svc, list>>

stopVM ==
    /\ op.pc = "idle"
    /\ env' = DisableTlsVerification(config, env)
    /\ \E call \in ApiCallOutcomes :
         op' = OpDone("stopVM", call,
                      TaskHandleResult(call, "stop",
                          [message |-> <<"Failed to stop VM: ",
                                         ErrorMessageOf(call)>>]))
    /\ UNCHANGED <<config, cluster, conn, api, svc, list>>

\* .filter((resource) => resource.template === 1).map(...)
TemplatesOf(cl) ==
    LET templates == SelectSeq(cl, LAMBDA resource : resource.template = 1)
    IN  [k \in 1..Len(templates) |->
            [name |-> templates[k].name, node |-> templates[k].node,
             template |-> 1, vmid |-> templates[k].vmid]]

listTemplates ==
    /\ op.pc = "idle"
    /\ env' = DisableTlsVerification(config, env)
    /\ op' = OpDone("listTemplates", NoCall,
                    IF ~RequestOk(api, RequestEnv(config, env))
                    THEN Catch([message |-> <<"Failed to connect to Proxmox API">>])
                    ELSE IF ~api.wellFormed
                         THEN failure(UnexpectedFormat)
                         ELSE success(TemplatesOf(cluster)))
    /\ UNCHANGED <<config, cluster, conn, api, svc, list>>

\* the records of the type=vm endpoint for one vmid, templates of both kinds
\* included; a template does not run
CatalogResources(vmid) ==
    {[vmid |-> vmid, type |-> type, template |-> ts[1], name |-> NameOf(vmid),
      node |-> "pve", status |-> ts[2], agent |-> ts[3]] :
        type \in {"qemu", "lxc"},
        ts \in {<<0, "running", AgentUp(IpOf(vmid))>>, <<0, "stopped", AgentDown>>,
                <<1, "stopped", AgentDown>>}}

\* the endpoint answers in any order
CatalogClusters ==
    {cl \in UNION {[1..n -> UNION {CatalogResources(v) : v \in VmidPool}] :
                      n \in 0..MaxResources} : DistinctVmids(cl)}

InitCatalog ==
    /\ cluster \in CatalogClusters
    /\ conn = ConnIdle
    /\ api \in ApiStates
    /\ svc = SvcIdle
    /\ list = ListIdle
    /\ op = OpIdle

\* the operations that are modelled step by step above
SteppedOperations ==
    {"getNextAvailableVmid", "listResources", "waitForTask",
     "getResourceIPAddress", "connectSSH"}

\* the caller invokes one of them
Invoke ==
    /\ op.pc = "idle"
    /\ \E name \in SteppedOperations :
         op' = [op EXCEPT !.pc = "running", !.name = name]
    /\ UNCHANGED <<config, env, cluster, conn, api, svc, list>>

Running(name) == op.pc = "running" /\ op.name = name

\* VM 100 runs with its guest agent, 200 is a template
OpsCluster ==
    <<[vmid |-> 100, type |-> "qemu", template |-> 0, name |-> NameOf(100),
       node |-> "pve", status |-> "running", agent |-> AgentUp(IpOf(100))],
      [vmid |-> 200, type |-> "qemu", template |-> 1, name |-> NameOf(200),
       node |-> "pve", status |-> "stopped", agent |-> AgentDown]>>

InitOps ==
    /\ cluster = OpsCluster
    /\ conn = ConnIdle
    /\ api \in ApiStates
    /\ svc = SvcIdle
    /\ list = ListIdle
    /\ op = OpIdle

----------------------------------------------------------------------------
(* Specifications *)

vars == <<config, env, allocVars, pollVars, connVars, otherVars, moreVars>>

InitConfig ==
    /\ config \in [rejectUnauthorized : BOOLEAN]
    /\ env \in {"unset", "1"}

NextAlloc == getNextAvailableVmid /\ UNCHANGED <<pollVars, connVars, otherVars, moreVars>>

InitAllocOnly ==
    /\ InitConfig
    /\ InitAlloc
    /\ InitPoll
    /\ InitConnIdle
    /\ api \in ApiStates
    /\ svc = SvcIdle
    /\ list = ListIdle
    /\ op = OpIdle
    /\ InitMoreIdle

SpecAlloc == InitAllocOnly /\ [][NextAlloc]_vars

NextPoll ==
    \/ waitForTask /\ UNCHANGED <<allocVars, connVars, otherVars, moreVars>>
    \/ CheckTimeout /\ UNCHANGED <<allocVars, connVars, otherVars, moreVars>>
    \/ QueryReturns /\ UNCHANGED <<allocVars, connVars, otherVars, moreVars>>
    \/ SleepTick /\ UNCHANGED <<allocVars, connVars, otherVars, moreVars>>

InitPollOnly ==
    /\ InitConfig
    /\ InitPoll
    /\ InitAllocIdle
    /\ InitConnIdle
    /\ InitOtherIdle
    /\ InitMoreIdle

SpecPoll == InitPollOnly /\ [][NextPoll]_vars

\* every awaited promise of the loop settles, so the loop keeps running
FairSpecPoll == SpecPoll /\ WF_vars(NextPoll)

NextConn ==
    \/ connectSSH /\ UNCHANGED <<allocVars, pollVars, otherVars, moreVars>>
    \/ ResolveIP /\ UNCHANGED <<allocVars, pollVars, otherVars, moreVars>>
    \/ ResolveFQDN /\ UNCHANGED <<allocVars, pollVars, otherVars, moreVars>>
    \/ ExecuteSSH /\ UNCHANGED <<allocVars, pollVars, otherVars, moreVars>>
    \/ ResourceDeleted /\ UNCHANGED <<allocVars, pollVars, otherVars, moreVars>>
    \/ AgentChanges /\ UNCHANGED <<allocVars, pollVars, otherVars, moreVars>>

InitConnOnly ==
    /\ InitConfig
    /\ InitConn
    /\ InitAllocIdle
    /\ InitPoll
    /\ InitOtherIdle
    /\ InitMoreIdle

SpecConn == InitConnOnly /\ [][NextConn]_vars

NextService ==
    \/ FirstLookup /\ UNCHANGED <<allocVars, pollVars, moreVars>>
    \/ RepeatedLookup /\ UNCHANGED <<allocVars, pollVars, moreVars>>
    \/ ResourceDeletedBetweenLookups /\ UNCHANGED <<allocVars, pollVars, moreVars>>
    \/ AgentChangesBetweenLookups /\ UNCHANGED <<allocVars, pollVars, moreVars>>
    \/ ApiGoesDown /\ UNCHANGED <<allocVars, pollVars, moreVars>>

InitServiceOnly ==
    /\ InitConfig
    /\ InitService
    /\ InitAllocIdle
    /\ InitPoll
    /\ InitMoreIdle

SpecService == InitServiceOnly /\ [][NextService]_vars

NextList ==
    \/ listResourcesCall /\ UNCHANGED <<allocVars, pollVars, moreVars>>
    \/ AgentQueryStarts /\ UNCHANGED <<allocVars, pollVars, moreVars>>
    \/ AgentQueryReturns /\ UNCHANGED <<allocVars, pollVars, moreVars>>
    \/ listResourcesReturns /\ UNCHANGED <<allocVars, pollVars, moreVars>>

InitListOnly ==
    /\ InitConfig
    /\ InitList
    /\ InitAllocIdle
    /\ InitPoll
    /\ InitMoreIdle

SpecList == InitListOnly /\ [][NextList]_vars

NextOps ==
    \/ cloneFromTemplate /\ UNCHANGED <<allocVars, pollVars, moreVars>>
    \/ deleteVM /\ UNCHANGED <<allocVars, pollVars, moreVars>>
    \/ setVMConfig /\ UNCHANGED <<allocVars, pollVars, moreVars>>
    \/ startVM /\ UNCHANGED <<allocVars, pollVars, moreVars>>
    \/ stopVM /\ UNCHANGED <<allocVars, pollVars, moreVars>>
    \/ listTemplates /\ UNCHANGED <<allocVars, pollVars, moreVars>>
    \/ Invoke /\ UNCHANGED <<allocVars, pollVars, moreVars>>
    \/ Running("getNextAvailableVmid") /\ NextAlloc
    \/ Running("listResources") /\ NextList
    \/ Running("waitForTask") /\ NextPoll
    \/ Running("getResourceIPAddress") /\ NextService
    \/ Running("connectSSH") /\ NextConn

InitOpsOnly ==
    /\ InitConfig
    /\ InitOps
    /\ InitAllocIdle
    /\ InitPoll
    /\ InitMoreIdle

SpecOps == InitOpsOnly /\ [][NextOps]_vars

NextCatalog ==
    \/ NextList
    \/ listTemplates /\ UNCHANGED <<allocVars, pollVars, moreVars>>

InitCatalogOnly ==
    /\ InitConfig
    /\ InitCatalog
    /\ InitAllocIdle
    /\ InitPoll
    /\ InitMoreIdle

SpecCatalog == InitCatalogOnly /\ [][NextCatalog]_vars

NextCommand ==
    \/ ServiceConnect /\ UNCHANGED <<allocVars, pollVars, otherVars, probe, batch, flows>>
    \/ VmConnect /\ UNCHANGED <<allocVars, pollVars, otherVars, probe, batch, flows>>
    \/ ContainerConnect /\ UNCHANGED <<allocVars, pollVars, otherVars, probe, batch, flows>>
    \/ SelectContainer /\ UNCHANGED <<allocVars, pollVars, otherVars, probe, batch, flows>>
    \/ ContainerLookup /\ UNCHANGED <<allocVars, pollVars, otherVars, probe, batch, flows>>
    \/ ResolveIP /\ UNCHANGED <<allocVars, pollVars, otherVars, moreVars>>
    \/ ResolveFQDN /\ UNCHANGED <<allocVars, pollVars, otherVars, moreVars>>
    \/ ExecuteSSH /\ UNCHANGED <<allocVars, pollVars, otherVars, moreVars>>
    \/ CommandExit /\ UNCHANGED <<allocVars, pollVars, otherVars, probe, batch, flows>>

InitCommandOnly ==
    /\ InitConfig
    /\ InitCommand
    /\ InitAllocIdle
    /\ InitPoll
    /\ InitOtherIdle
    /\ probe = ProbeIdle
    /\ batch = BatchIdle
    /\ flows = FlowsIdle

SpecCommand == InitCommandOnly /\ [][NextCommand]_vars

NextBatch ==
    \/ BatchRun /\ UNCHANGED <<allocVars, pollVars, conn, otherVars, probe, cmd, flows>>
    \/ BatchSelect /\ UNCHANGED <<allocVars, pollVars, conn, otherVars, probe, cmd, flows>>
    \/ BatchLoad /\ UNCHANGED <<allocVars, pollVars, conn, otherVars, probe, cmd, flows>>
    \/ RequestIssued /\ UNCHANGED <<allocVars, pollVars, conn, otherVars, probe, cmd, flows>>
    \/ RequestReturns /\ UNCHANGED <<allocVars, pollVars, conn, otherVars, probe, cmd, flows>>
    \/ BatchSummary /\ UNCHANGED <<allocVars, pollVars, conn, otherVars, probe, cmd, flows>>

InitBatchOnly ==
    /\ InitConfig
    /\ InitBatch
    /\ InitAllocIdle
    /\ InitPoll
    /\ conn = ConnIdle
    /\ InitOtherIdle
    /\ probe = ProbeIdle
    /\ cmd = CmdIdle
    /\ flows = FlowsIdle

SpecBatch == InitBatchOnly /\ [][NextBatch]_vars

NextFlows ==
    \/ \E f \in 1..MaxFlows :
         FlowAllocates(f)
         /\ UNCHANGED <<pollVars, connVars, svc, list, op, probe, cmd, batch>>
    \/ \E f \in 1..MaxFlows :
         FlowClones(f)
         /\ UNCHANGED <<pollVars, connVars, svc, list, op, probe, cmd, batch>>

InitFlowsOnly ==
    /\ InitConfig
    /\ InitFlows
    /\ InitPoll
    /\ InitConnIdle
    /\ svc = SvcIdle
    /\ list = ListIdle
    /\ op = OpIdle
    /\ probe = ProbeIdle
    /\ cmd = CmdIdle
    /\ batch = BatchIdle

SpecFlows == InitFlowsOnly /\ [][NextFlows]_vars

NextProbe == fetchVMIPAddressCall /\ UNCHANGED <<allocVars, pollVars>>

InitProbeOnly ==
    /\ InitConfig
    /\ InitAllocIdle
    /\ InitPoll
    /\ InitConnIdle
    /\ InitOtherIdle
    /\ InitProbe

SpecProbe == InitProbeOnly /\ [][NextProbe]_vars

----------------------------------------------------------------------------
(* Properties of the vmid allocator *)

\* C1: for every set of used ids (ids below 100 included) that the cluster
\* reports, the allocator returns the smallest integer >= 100 that is not in
\* the set.
C1_SmallestFreeId ==
    (allocPc = "done" /\ RequestOk(api, env) /\ api.wellFormed) =>
        /\ allocResult.success
        /\ allocResult.data >= 100
        /\ allocResult.data \notin response
        /\ \A k \in 100..(allocResult.data - 1) : k \in response

\* ids below 100 in use, a gap at 102 above two used ids
C1_Witness ==
    /\ allocPc = "done"
    /\ response = {99, 100, 101, 103}
    /\ allocResult.success
    /\ allocResult.data = 102

----------------------------------------------------------------------------
(* Properties of the task poller *)

Polling == pc \in {"check", "query", "sleep"}

\* C2: a snapshot with status running leaves the poller polling without a
\* result; the first snapshot whose status is not running makes it return,
\* with success iff exitstatus is exactly "OK" and a task failure otherwise.
C2_SnapshotDecides ==
    [][(pc = "query" /\ pc' # "query" /\ lastSnap'.kind = "status") =>
          IF lastSnap'.status = "running"
          THEN pc' = "sleep" /\ returns' = returns /\ result' = NoResult
          ELSE /\ pc' = "done"
               /\ returns' = returns + 1
               /\ result'.success <=> (lastSnap'.exitstatus = "OK")
               /\ ~result'.success => ErrorKind(result') = "Task failed: "]_vars

\* the task stopped with "OK" at the third status query
C2_Witness ==
    /\ pc = "done"
    /\ queries = 3
    /\ lastSnap.status = "stopped"
    /\ lastSnap.exitstatus = "OK"
    /\ result.success

\* C3: a call whose queries only ever reported running, or nothing, ends,
\* and it ends with the timeout failure after the timeout has elapsed.
C3_TimesOut ==
    /\ [](pc = "done" /\ lastSnap.kind # "throw"
               /\ (lastSnap.kind = "status" => lastSnap.status = "running")
            => /\ ErrorKind(result) = "Task timed out after "
               /\ now - startTime > timeoutMs)
    /\ (Polling ~> pc = "done")

\* timed out after queries that returned nothing and that reported running
C3_Witness ==
    /\ pc = "done"
    /\ ErrorKind(result) = "Task timed out after "
    /\ queries >= 2
    /\ ~allRunning
    /\ lastSnap.kind \in {"none", "status"}

\* C4 as stated: a status query that errors (no status is returned) leaves
\* the poller polling, waiting for the next tick.
C4_Original ==
    [][(pc = "query" /\ pc' # "query" /\ lastSnap'.kind \in {"none", "throw"})
          => (pc' = "sleep" /\ returns' = returns)]_vars

\* C4 amended: a status query that resolves to nothing leaves the poller
\* polling, with a full sleep before the next tick; a status query that
\* throws makes the poller return "Failed to poll task status" at once.
C4_EmptyRetriesThrowFails ==
    [][(pc = "query" /\ pc' # "query") =>
          /\ lastSnap'.kind = "none" =>
                /\ pc' = "sleep"
                /\ sleepLeft' = pollInterval
                /\ returns' = returns
                /\ result' = NoResult
          /\ lastSnap'.kind = "throw" =>
                /\ pc' = "done"
                /\ returns' = returns + 1
                /\ ErrorKind(result') = "Failed to poll task status"]_vars

\* the second query resolved to nothing and the poller sleeps again
C4_Witness ==
    /\ pc = "sleep"
    /\ lastSnap.kind = "none"
    /\ queries = 2
    /\ returns = 0

\* C5 as stated: once the timeout has expired during the sleep, the sleep
\* ends and the poller is timed out, whatever is left of the two seconds.
C5_Original ==
    [][(pc = "sleep" /\ now - startTime > timeoutMs) =>
          (pc' = "done" /\ ErrorKind(result') = "Task timed out after ")]_vars

\* C5 amended: the timeout is examined at the top of an iteration only; a
\* sleep that was started runs for its whole two seconds, and the poller
\* times out at the first timeout check at which elapsed > timeout.
C5_TimeoutOnlyAtCheck ==
    [][/\ pc = "sleep" => /\ pc' \in {"sleep", "check"}
                          /\ returns' = returns
                          /\ pc' = "check" <=> sleepLeft' = 0
                          /\ now' - now = sleepLeft - sleepLeft'
       /\ (pc # "sleep" /\ pc' = "sleep") => sleepLeft' = pollInterval
       /\ (returns' # returns /\ ErrorKind(result') = "Task timed out after ")
             => (pc = "check" /\ now - startTime > timeoutMs)
       /\ (pc = "check" /\ now - startTime > timeoutMs)
             => (pc' = "done" /\ ErrorKind(result') = "Task timed out after ")
      ]_vars

\* the timeout has expired and the sleep still goes on
C5_Witness ==
    /\ pc = "sleep"
    /\ now - startTime > timeoutMs
    /\ sleepLeft > 0
    /\ returns = 0

\* C6 as stated: a task that never leaves running makes the poller return
\* no later than timeout + one poll interval after the call started.
C6_Original ==
    (pc = "done" /\ allRunning /\ queries > 0) =>
        now - startTime <= timeoutMs + pollInterval

\* C6 amended: ... no later than timeout + one poll interval + the time
\* the last status query took.
C6_BoundWithQueryTime ==
    (pc = "done" /\ allRunning /\ queries > 0) =>
        now - startTime <= timeoutMs + pollInterval + lastLatency

\* the bound is met: the last check passed exactly at the timeout
C6_Witness ==
    /\ pc = "done"
    /\ allRunning
    /\ queries >= 2
    /\ lastLatency > 0
    /\ now - startTime = timeoutMs + pollInterval + lastLatency

\* C7: a call returns exactly once: it has returned iff it is in its
\* terminal state, and from there no query is issued and nothing changes.
C7_TerminalIsFinal ==
    [][/\ returns' <= 1
       /\ (pc' = "done") <=> (returns' = 1)
       /\ pc = "done" => /\ pc' = "done"
                         /\ queries' = queries
                         /\ returns' = returns
                         /\ result'.success = result.success
                         /\ ErrorKind(result') = ErrorKind(result)]_vars

\* a task failure was returned after two queries
C7_Witness ==
    /\ pc = "done"
    /\ returns = 1
    /\ queries = 2
    /\ ErrorKind(result) = "Task failed: "

\* C8 as stated: the text of a task failure is the raw exitstatus,
\* the empty one included.
C8_Original ==
    (pc = "done" /\ ErrorKind(result) = "Task failed: ") =>
        result.error.message = <<"Task failed: ", lastSnap.exitstatus>>

\* C8 amended: the context of a task failure carries the raw exitstatus;
\* its message is "Task failed: " followed by the exitstatus, or by
\* "unknown error" when the exitstatus is empty or missing.
C8_RawInContextOnly ==
    (pc = "done" /\ ErrorKind(result) = "Task failed: ") =>
        /\ result.error.context.exitstatus = lastSnap.exitstatus
        /\ result.error.message[2] =
              IF lastSnap.exitstatus \in {"", Undefined}
              THEN "unknown error" ELSE lastSnap.exitstatus

\* a task failure for an empty exitstatus
C8_Witness ==
    /\ pc = "done"
    /\ ErrorKind(result) = "Task failed: "
    /\ lastSnap.exitstatus = ""
    /\ result.error.context.exitstatus = ""
    /\ result.error.message[2] = "unknown error"

----------------------------------------------------------------------------
(* Properties of the connection orchestrator *)

IsNotFound(r) ==
    /\ ~r.success
    /\ Len(r.error.message) = 4
    /\ r.error.message[4] = " not found"

IsUnavailable(r) ==
    /\ ~r.success
    /\ Len(r.error.message) = 4
    /\ r.error.message[4] = ": IP address not available."

C10_IpPreferred ==
    (conn.ipCalls > 0 /\ conn.ipResult.success) =>
        /\ conn.fqdnCalls = 0
        /\ conn.pc \in {"ssh", "done"}
        /\ conn.connectionMethod = "ip"
        /\ conn.connectionTarget = conn.ipResult.data
        /\ conn.pc = "done" =>
              conn.sshArgs = <<"-i", conn.keyPath,
                               <<conn.username, "@", conn.ipResult.data>>>>

\* VM 100 has an address (and a name for an FQDN): ssh ran against the
\* address, with the default credentials
C10_Witness ==
    /\ conn.pc = "done"
    /\ conn.vmid = 100
    /\ conn.ipResult.success
    /\ conn.fqdnCalls = 0
    /\ conn.result.success
    /\ conn.sshArgs = <<"-i", "~/.ssh/admin_id_ecdsa",
                        <<"admin", "@", "192.168.1.10">>>>

\* the resource with this vmid is in a listing that was obtained
InListing(listing, vmid) ==
    /\ listing.success
    /\ \E k \in 1..Len(listing.data) : listing.data[k].vmid = vmid

----------------------------------------------------------------------------
(* Properties of the address lookups of the service *)

\* C14: on a listing that was obtained, getResourceIPAddress has exactly one
\* of three outcomes: "not found" iff no listed resource has the vmid, "IP
\* address not available" iff the listed resource has no ipv4Address, and
\* success with the address otherwise; the two failures differ.
C14_ThreeOutcomes ==
    (svc.calls > 0 /\ svc.lookup = "ip" /\ svc.listing.success) =>
        LET data == svc.listing.data
            r == svc.result
            Entries == {k \in 1..Len(data) : data[k].vmid = svc.vmid}
        IN  /\ IsNotFound(r) <=> Entries = {}
            /\ IsUnavailable(r) <=>
                  \E k \in Entries : data[k].ipv4Address = Null
            /\ r.success <=>
                  \E k \in Entries : data[k].ipv4Address # Null
            /\ r.success =>
                  \E k \in Entries : r.data = data[k].ipv4Address
            /\ ~(IsNotFound(r) /\ IsUnavailable(r))
            /\ r.success \/ IsNotFound(r) \/ IsUnavailable(r)

\* of two listed containers, 200 has no address: the lookup of 200 fails
\* with "IP address not available"
C14_Witness ==
    /\ svc.calls = 1
    /\ svc.lookup = "ip"
    /\ svc.vmid = 200
    /\ svc.resourceType = "lxc"
    /\ svc.listing.success
    /\ Len(svc.listing.data) = 2
    /\ svc.listing.data[1].ipv4Address = "192.168.1.10"
    /\ IsUnavailable(svc.result)

\* C15: on a listing that was obtained, getResourceFQDN succeeds with exactly
\* "<name>.home.sflab.io" for every listed resource, whatever its status and
\* ipv4Address, fails with "not found" only when no listed resource has the
\* vmid, and never fails for want of an address.
C15_FqdnFromName ==
    (svc.calls > 0 /\ svc.lookup = "fqdn" /\ svc.listing.success) =>
        LET data == svc.listing.data
            r == svc.result
            Entries == {k \in 1..Len(data) : data[k].vmid = svc.vmid}
        IN  /\ Entries # {} =>
                  /\ r.success
                  /\ r.data = <<NameOf(svc.vmid), ".home.sflab.io">>
            /\ Entries = {} <=> IsNotFound(r)
            /\ ~IsUnavailable(r)

\* VM 100 is stopped and has no address: its FQDN is ubuntu-web.home.sflab.io
C15_Witness ==
    /\ svc.calls = 1
    /\ svc.lookup = "fqdn"
    /\ svc.vmid = 100
    /\ svc.resourceType = "qemu"
    /\ \E k \in 1..Len(svc.listing.data) :
          /\ svc.listing.data[k].vmid = 100
          /\ svc.listing.data[k].status = "stopped"
          /\ svc.listing.data[k].ipv4Address = Null
    /\ svc.result = success(<<"ubuntu-web", ".home.sflab.io">>)

\* C19: a getResourceIPAddress lookup that is repeated while the resources,
\* the guest agents' answers and the endpoint stay as they were returns the
\* result of the first lookup.
C19_RepeatedLookupAgrees ==
    (svc.calls >= 2 /\ svc.lookup = "ip" /\ ~svc.changed) =>
        svc.result = svc.first

\* the address of VM 100 was looked up twice through an endpoint with a
\* self-signed certificate, TLS verification being switched off by the
\* configuration
C19_Witness ==
    /\ svc.calls = 2
    /\ svc.lookup = "ip"
    /\ ~svc.changed
    /\ api.selfSigned
    /\ ~config.rejectUnauthorized
    /\ svc.first = success("192.168.1.10")
    /\ svc.result = success("192.168.1.10")

----------------------------------------------------------------------------
(* Properties of the resource listing *)

\* C16: the guest-agent queries of one listing are made one at a time and in
\* the order of the listing: the query of resource k+1 begins only when the
\* query of resource k has returned.
C16_QueriesSequential ==
    /\ Cardinality(list.inFlight) <= 1
    /\ list.started = [k \in 1..Len(list.started) |-> k]
    /\ Len(list.started) <= Len(list.completed) + 1
    /\ list.completed = SubSeq(list.started, 1, Len(list.completed))
    /\ list.inFlight = Range(list.started) \ Range(list.completed)

\* two resources are listed; the query of the first has returned and the
\* query of the second is under way
C16_Witness ==
    /\ list.pc = "loop"
    /\ Len(list.resources) = 2
    /\ list.started = <<1, 2>>
    /\ list.completed = <<1>>
    /\ list.inFlight = {2}

\* C17: once the cluster resources are fetched, a failed guest-agent query
\* does not fail the listing: listResources returns success with every listed
\* resource, in order, the resource whose query failed with ipv4Address null
\* and every other resource with the address its own query gave.
C17_AgentFailureSwallowed ==
    /\ (list.fetched /\ list.pc = "done") =>
          /\ list.result.success
          /\ Len(list.result.data) = Len(list.resources)
          /\ \A k \in 1..Len(list.resources) :
                /\ list.result.data[k].vmid = list.resources[k].vmid
                /\ list.result.data[k].ipv4Address =
                      IF k \in list.failed \/ ~list.resources[k].agent.ok
                      THEN Null
                      ELSE IpOf(list.resources[k].vmid)
    /\ (list.fetched /\ list.pc = "loop") => ~list.result.success

\* the query of VM 100 failed although its agent runs; VM 200 has its address
C17_Witness ==
    /\ list.pc = "done"
    /\ list.resourceType = "qemu"
    /\ Len(list.resources) = 2
    /\ list.resources[1].vmid = 100
    /\ list.resources[1].agent.ok
    /\ list.failed = {1}
    /\ list.result.success
    /\ list.result.data[1].ipv4Address = Null
    /\ list.result.data[2].ipv4Address = "192.168.1.20"

----------------------------------------------------------------------------
(* More properties of the vmid allocator *)

\* C18: whatever ids are in use, ids below 100 included, the allocator never
\* returns an id below 100; when every id from 100 to the largest used id is
\* taken it returns the largest used id plus one.
C18_NeverBelowFloor ==
    (allocPc = "done" /\ allocResult.success) =>
        /\ allocResult.data >= 100
        /\ \A m \in response :
              (/\ m >= 100
               /\ \A k \in response : k <= m
               /\ \A k \in 100..m : k \in response) =>
                  allocResult.data = m + 1

\* two ids below 100 and no gap above them: the loop runs to its end
C18_Witness ==
    /\ allocPc = "done"
    /\ response = {98, 99, 100, 101}
    /\ allocResult.success
    /\ allocResult.data = 102

----------------------------------------------------------------------------
(* Failure reporting of the operations *)

\* C20: no operation of the repository or of the SSH service ends with an
\* exception: each returns a Result, and when the request it makes fails the
\* Result is a failure that carries an error message.
C20_FailureIsAResult ==
    /\ op.result # Raised
    /\ allocResult # Raised
    /\ list.result # Raised
    /\ result # Raised
    /\ svc.result # Raised
    /\ conn.result # Raised
    /\ (op.pc = "done" /\ op.call.kind = "throws") =>
          (~op.result.success /\ Len(op.result.error.message) > 0)
    /\ (op.pc = "done" /\ op.name = "listTemplates"
          /\ ~(RequestOk(api, env) /\ api.wellFormed)) =>
          (~op.result.success /\ Len(op.result.error.message) > 0)
    /\ (allocPc = "done" /\ ~(RequestOk(api, env) /\ api.wellFormed)) =>
          (~allocResult.success /\ Len(allocResult.error.message) > 0)
    /\ (list.pc = "done" /\ ~list.fetched) =>
          (~list.result.success /\ Len(list.result.error.message) > 0)
    /\ (pc = "done" /\ lastSnap = QueryThrows) =>
          (~result.success /\ ErrorKind(result) = "Failed to poll task status")
    /\ (svc.calls > 0 /\ ~svc.listing.success) =>
          (~svc.result.success /\ Len(svc.result.error.message) > 0)
    /\ (conn.pc = "done" /\ conn.sshArgs = <<>>) =>
          (~conn.result.success /\ Len(conn.result.error.message) > 0)

\* the delete request of VM 100 threw "... is running": deleteVM returned the
\* failure that tells the user to stop the VM
C20_Witness ==
    /\ op.pc = "done"
    /\ op.name = "deleteVM"
    /\ op.call = Throws(TRUE, <<"VM 100 ", "is running">>)
    /\ ~op.result.success
    /\ op.result.error.message
          = <<"Delete failed: VM ", 100,
              " is running - Stop the VM and rerun the delete command">>

----------------------------------------------------------------------------
(* The process-wide TLS setting *)

\* C21: no call of the repository changes the process-wide TLS-verification
\* setting: NODE_TLS_REJECT_UNAUTHORIZED is after every step what it was
\* before it.
C21_Original == [][env' = env]_vars

----------------------------------------------------------------------------
(* Properties of the IP discovery *)

\* the name has an "l" or "L" directly followed by an "o" or "O"
NameHasLo(name) ==
    \E k \in 1..(Len(name) - 1) :
        name[k] \in {"l", "L"} /\ name[k + 1] \in {"o", "O"}

\* the positions of the non-empty IPv4-typed addresses of an interface
IPv4Positions(iface) ==
    {j \in 1..Len(iface.addrs) :
        iface.addrs[j].type = "ipv4" /\ iface.addrs[j].address # ""}

\* C22: fetchVMIPAddress skips every interface whose name contains "lo" in
\* any case and returns the first IPv4-typed address of the first remaining
\* interface that has one; it returns null when the guest-agent call fails,
\* when the answer holds no interface list and when no remaining interface
\* has an IPv4 address.
C22_FirstNonLoopbackIPv4 ==
    probe.pc = "done" =>
        LET ifaces == probe.agent.result
            Kept == {i \in 1..Len(ifaces) :
                        ~NameHasLo(ifaces[i].name)
                        /\ IPv4Positions(ifaces[i]) # {}}
        IN  IF ~probe.agent.ok \/ ~probe.agent.isArray \/ Kept = {}
            THEN probe.result = Null
            ELSE \E i \in Kept :
                   /\ \A h \in Kept : i <= h
                   /\ \E j \in IPv4Positions(ifaces[i]) :
                         /\ \A g \in IPv4Positions(ifaces[i]) : j <= g
                         /\ probe.result = ifaces[i].addrs[j].address

\* wlO1 has an IPv4 address and is skipped for its name; the address of eth0,
\* listed after an IPv6 address, is returned
C22_Witness ==
    /\ probe.pc = "done"
    /\ Len(probe.agent.result) = 2
    /\ probe.agent.result[1].name = <<"w", "l", "O", "1">>
    /\ IPv4Positions(probe.agent.result[1]) # {}
    /\ probe.agent.result[2].name = <<"e", "t", "h", "0">>
    /\ probe.result = "192.168.1.10"

----------------------------------------------------------------------------
(* Properties of the resource and template lists *)

\* the record of the cluster that carries the vmid is a template
IsTemplate(vmid) ==
    \E k \in 1..Len(cluster) : cluster[k].vmid = vmid /\ cluster[k].template = 1

\* the record of the cluster that carries the vmid is a VM
IsVM(vmid) ==
    \E k \in 1..Len(cluster) : cluster[k].vmid = vmid /\ cluster[k].type = "qemu"

TemplatesListed ==
    op.pc = "done" /\ op.name = "listTemplates" /\ op.result.success

\* C23: listResources of either kind never returns a template, and
\* listTemplates returns templates only, each of them a VM.
C23_Original ==
    /\ (list.pc = "done" /\ list.result.success) =>
          \A k \in 1..Len(list.result.data) : ~IsTemplate(list.result.data[k].vmid)
    /\ TemplatesListed =>
          \A k \in 1..Len(op.result.data) :
              IsTemplate(op.result.data[k].vmid) /\ IsVM(op.result.data[k].vmid)

\* C26: listTemplates returns the templates in ascending order of vmid.
C26_Original ==
    TemplatesListed =>
        \A i, j \in 1..Len(op.result.data) :
            i < j => op.result.data[i].vmid <= op.result.data[j].vmid

----------------------------------------------------------------------------
(* Properties of getRunningResources *)

\* C24: getRunningResources(kind) returns exactly the resources of
\* listResources(kind) whose status is 'running', in the order of the listing
\* and with their fields unchanged (an empty list when none runs), and when
\* the listing fails it fails with the repository's error as cause.
C24_RunningOnly ==
    (svc.calls > 0 /\ svc.lookup = "running") =>
        LET l == svc.listing
            r == svc.result
        IN  IF l.success
            THEN /\ r.success
                 /\ Range(r.data) = {d \in Range(l.data) : d.status = "running"}
                 /\ \A i, j \in 1..Len(r.data) : i < j =>
                       \E a, b \in 1..Len(l.data) :
                           a < b /\ l.data[a] = r.data[i] /\ l.data[b] = r.data[j]
            ELSE /\ ~r.success
                 /\ r.error.cause = l.error
                 /\ r.error.message = <<"Failed to retrieve ", svc.resourceType,
                                        " resources from Proxmox API">>

\* of two listed containers one runs and one is stopped: one is returned
C24_Witness ==
    /\ svc.calls > 0
    /\ svc.lookup = "running"
    /\ svc.resourceType = "lxc"
    /\ svc.listing.success
    /\ Len(svc.listing.data) = 2
    /\ svc.result.success
    /\ Len(svc.result.data) = 1
    /\ svc.result.data[1].status = "running"

----------------------------------------------------------------------------
(* Properties of the SSH execution *)

\* ssh was run and failed: it could not be started or it ended with a
\* non-zero exit code
SshCommandFailed ==
    /\ conn.pc = "done"
    /\ conn.sshArgs # <<>>
    /\ IF conn.execResult.success THEN conn.execResult.data.exitCode # 0 ELSE TRUE

\* C25: when the ssh command fails, connectSSH returns a failure whose
\* message includes the underlying SSH error.
C25_Original ==
    SshCommandFailed =>
        /\ ~conn.result.success
        /\ ~conn.execResult.success
        /\ \E k \in 1..Len(conn.result.error.message) :
               conn.result.error.message[k] = conn.execResult.error.message

----------------------------------------------------------------------------
(* Properties of the connect commands *)

\* C27: connectSSH, the VM connect command and the container connect command
\* each connect as 'admin' with the key '~/.ssh/admin_id_ecdsa' when the
\* caller gives no user and no key, and with the caller's values when given.
C27_Original ==
    (cmd.pc # "idle" /\ conn.pc # "idle") =>
        /\ conn.username = IF cmd.userFlag = Undefined THEN "admin"
                           ELSE cmd.userFlag
        /\ conn.keyPath = IF cmd.keyFlag = Undefined THEN "~/.ssh/admin_id_ecdsa"
                          ELSE cmd.keyFlag

----------------------------------------------------------------------------
(* Properties of the fallback while the cluster stays as it is *)

IsBothStrategiesFailed(r) ==
    /\ ~r.success
    /\ Len(r.error.message) = 4
    /\ r.error.message[4] = ": IP address not available and FQDN resolution failed."

----------------------------------------------------------------------------
(* Properties of the start and stop batches *)

\* C29: in a start or stop batch the VMs are processed one at a time and in
\* the order requested: the request for VM k+1 is issued only when the
\* request for VM k has returned its result.
C29_BatchSequential ==
    /\ Cardinality(batch.inFlight) <= 1
    /\ batch.issued = [k \in 1..Len(batch.issued) |-> k]
    /\ Len(batch.issued) <= Len(batch.returned) + 1
    /\ batch.returned = SubSeq(batch.issued, 1, Len(batch.returned))
    /\ batch.inFlight = Range(batch.issued) \ Range(batch.returned)
    /\ \A k \in 1..Len(batch.vms) : batch.vms[k].vmid = batch.vmids[k]

\* VMs 200 and 100 were requested in this order; the request for 200 has
\* returned and the request for 100 is under way
C29_Witness ==
    /\ batch.pc = "loop"
    /\ batch.vmids = <<200, 100>>
    /\ batch.issued = <<1, 2>>
    /\ batch.returned = <<1>>
    /\ batch.inFlight = {2}

----------------------------------------------------------------------------
(* Properties of the flows that allocate and clone *)

HasVmid(f) == flows[f].pc \in {"allocated", "cloned", "rejected"}

\* C30 as stated: the vmid of a flow is unused when its clone is submitted,
\* and no two flows obtain the same vmid.
C30_Original ==
    /\ \A f \in 1..MaxFlows : ~flows[f].usedAtSubmit
    /\ \A f, g \in 1..MaxFlows :
          (f # g /\ HasVmid(f) /\ HasVmid(g)) => flows[f].vmid # flows[g].vmid

\* C30: the vmid the allocator returns is unused in the listing the allocator
\* fetched, and it is in use when the clone is submitted only if another
\* flow obtained the same vmid from a listing without it and cloned first.
C30_UnusedWhenFetched ==
    \A f \in 1..MaxFlows :
        /\ HasVmid(f) => flows[f].vmid \notin flows[f].listing
        /\ flows[f].usedAtSubmit =>
              \E g \in 1..MaxFlows :
                  /\ g # f
                  /\ flows[g].pc = "cloned"
                  /\ flows[g].vmid = flows[f].vmid
                  /\ flows[g].vmid \notin flows[g].listing

\* both flows obtained 102 from a cluster that uses 100 and 101; the first
\* cloned, the clone of the second was rejected
C30_Witness ==
    /\ flows[1].pc = "cloned"
    /\ flows[2].pc = "rejected"
    /\ flows[1].vmid = 102
    /\ flows[2].vmid = 102
    /\ flows[2].listing = flows[1].listing
    /\ {100, 101} \subseteq flows[1].listing

====
